---- MODULE Spec2Model ----
(***************************************************************************)
(* A model of generate_storyboard_gemini.py: the shot-timeline builder     *)
(* (build_camera_shots), the specification assembler (build_spec_json),    *)
(* and the Streamlit script that checks the credential, assembles the      *)
(* specification on a button press, calls the text-generation service and  *)
(* splits its reply at the separator line.                                 *)
(*                                                                         *)
(* Durations and shot times are Python floats.  A duration argument is the *)
(* double nearest to d/100 for an integer d (hundredths of a second); the  *)
(* products duration_sec * 0.3 etc. are computed as IEEE-754 binary64      *)
(* products (round to nearest, ties to even) on 13-bit limbs, and          *)
(* round(x, 2) is the correctly rounded decimal rounding of the exact      *)
(* binary value, as CPython does it.  A value round(x, 2) returns is the   *)
(* double nearest to h/100 and is held as the integer h.                   *)
(***************************************************************************)
EXTENDS Integers, Sequences, FiniteSets, TLC

\* ------------------------------------------------------------------------
\* Natural numbers wider than 32 bits: little-endian sequences of limbs.
\* ------------------------------------------------------------------------
LimbBits == 12 + 1
LimbBase == 2 ^ LimbBits

Limb(a, i) == IF i >= 1 /\ i <= Len(a) THEN a[i] ELSE 0

RECURSIVE BigCarry(_, _)
BigCarry(cols, c) ==
    IF cols = <<>>
    THEN IF c = 0 THEN <<>> ELSE <<c % LimbBase>> \o BigCarry(<<>>, c \div LimbBase)
    ELSE LET t == Head(cols) + c
         IN  <<t % LimbBase>> \o BigCarry(Tail(cols), t \div LimbBase)

RECURSIVE ColumnSum(_, _, _, _)
ColumnSum(a, b, k, i) ==
    IF i > Len(a) THEN 0
    ELSE a[i] * Limb(b, k + 1 - i) + ColumnSum(a, b, k, i + 1)

BigMul(a, b) ==
    BigCarry([k \in 1..(Len(a) + Len(b) - 1) |-> ColumnSum(a, b, k, 1)], 0)

BigMulSmall(a, n) == BigCarry([i \in 1..Len(a) |-> a[i] * n], 0)

BigOfInt(n) == BigCarry(<<>>, n)

RECURSIVE BigToInt(_)
BigToInt(a) == IF a = <<>> THEN 0 ELSE Head(a) + LimbBase * BigToInt(Tail(a))

RECURSIVE SmallBitLen(_)
SmallBitLen(n) == IF n = 0 THEN 0 ELSE 1 + SmallBitLen(n \div 2)

RECURSIVE TopLimb(_, _)
TopLimb(a, i) == IF i = 0 THEN 0 ELSE IF a[i] # 0 THEN i ELSE TopLimb(a, i - 1)

BigBitLen(a) ==
    LET t == TopLimb(a, Len(a))
    IN  IF t = 0 THEN 0 ELSE LimbBits * (t - 1) + SmallBitLen(a[t])

\* floor(a / 2^k)
BigShr(a, k) ==
    LET q == k \div LimbBits
        b == k % LimbBits
    IN  [i \in 1..Len(a) |->
            (Limb(a, i + q + 1) % (2 ^ b)) * (2 ^ (LimbBits - b))
            + (Limb(a, i + q) \div (2 ^ b))]

\* bit k of a, counting the least significant bit as bit 0
BigBit(a, k) == (Limb(a, (k \div LimbBits) + 1) \div (2 ^ (k % LimbBits))) % 2

\* a mod 2^k = 0
BigLowZero(a, k) ==
    LET q == k \div LimbBits
        b == k % LimbBits
    IN  /\ \A i \in 1..q : Limb(a, i) = 0
        /\ Limb(a, q + 1) % (2 ^ b) = 0

BigIsZero(a) == \A i \in 1..Len(a) : a[i] = 0

\* floor(a * 2^(LimbBits * z) / den) and whether the division left a remainder
RECURSIVE LongDiv(_, _, _, _)
LongDiv(a, i, den, r) ==
    IF i = 0 THEN [q |-> <<>>, rem |-> r]
    ELSE LET cur  == r * LimbBase + a[i]
             rest == LongDiv(a, i - 1, den, cur % den)
         IN  [q |-> rest.q \o <<cur \div den>>, rem |-> rest.rem]

\* ------------------------------------------------------------------------
\* IEEE-754 binary64 values: (-1)^neg * m * 2^e with m < 2^53 (m = 2^53
\* only right after a rounding carry, the same value as 2^52 * 2^(e+1)).
\* ------------------------------------------------------------------------
MantissaBits == 52 + 1

\* The double nearest to a * 2^e (plus a non-zero tail below a's last bit
\* when inexact): round to nearest, ties to even.
RoundToDouble(neg, a, e, inexact) ==
    LET n == BigBitLen(a)
    IN  IF n <= MantissaBits
        THEN [neg |-> neg, m |-> a, e |-> e]
        ELSE LET k      == n - MantissaBits
                 q      == BigShr(a, k)
                 guard  == BigBit(a, k - 1) = 1
                 sticky == inexact \/ ~BigLowZero(a, k - 1)
                 up     == guard /\ (sticky \/ BigBit(q, 0) = 1)
             IN  [neg |-> neg,
                  m   |-> IF up THEN BigCarry(q, 1) ELSE q,
                  e   |-> e + k]

\* The double a decimal literal or a decimal input num/den denotes.
FloatOfRatio(num, den) ==
    LET n    == IF num < 0 THEN -num ELSE num
        wide == <<0, 0, 0, 0, 0>> \o BigOfInt(n)
        d    == LongDiv(wide, Len(wide), den, 0)
    IN  RoundToDouble(num < 0, d.q, -(5 * LimbBits), d.rem # 0)

\* x * y on doubles
FloatMul(x, y) ==
    RoundToDouble(x.neg # y.neg, BigMul(x.m, y.m), x.e + y.e, FALSE)

\* Round2 cutting the digits after the second instead of rounding
Round2_truncating(x) ==
    LET v  == BigMulSmall(x.m, 100)
        ip == BigToInt(BigShr(v, -x.e))
    IN  IF BigIsZero(x.m) THEN 0
        ELSE IF x.e >= 0 THEN (IF x.neg THEN -1 ELSE 1) * BigToInt(v) * (2 ^ x.e)
        ELSE IF x.neg THEN -ip ELSE ip

\* round(x, 2), as the integer number of hundredths of the result
Round2(x) ==
    LET v    == BigMulSmall(x.m, 100)
        k    == -x.e
        ip   == BigToInt(BigShr(v, k))
        half == BigBit(v, k - 1) = 1
        rest == ~BigLowZero(v, k - 1)
        h    == IF half /\ (rest \/ ip % 2 = 1) THEN ip + 1 ELSE ip
    IN  IF BigIsZero(x.m) THEN 0
        ELSE IF x.e >= 0 THEN (IF x.neg THEN -1 ELSE 1) * BigToInt(v) * (2 ^ x.e)
        ELSE IF x.neg THEN -h ELSE h

\* ------------------------------------------------------------------------
\* Preset catalogs.  A dict is a function on its keys; X_keys is the dict's
\* key order.  Non-ASCII text is written with its \uXXXX escapes.  Float
\* values (default_duration) are in hundredths.
\* ------------------------------------------------------------------------
\* CHARACTERS: lines 87-149
CHARACTERS_keys ==
    <<"female_cn_sanda",
      "male_us_mma",
      "male_hk_80s_thug",
      "female_wuxia_swordswoman",
      "male_cn_street_punk",
      "male_cn_street_big">>

CHARACTERS ==
    "female_cn_sanda" :>
        [name |-> "\\u5973\\u4e3b - \\u4e2d\\u56fd\\u6563\\u6253",
         role |-> "female_pro_fighter",
         nationality_style |-> "Chinese modern",
         visual_brief |-> "22-year-old athletic Chinese woman with a long black ponytail, wearing a black sports bra, tight black training pants and black MMA gloves, light sweat on her skin",
         motion_personality |-> "sharp_and_calm"]
    @@
    "male_us_mma" :>
        [name |-> "\\u7537\\u5bf9\\u624b - \\u7f8e\\u56fd MMA",
         role |-> "male_fighter",
         nationality_style |-> "US MMA",
         visual_brief |-> "stocky male fighter in his late 20s with short dark hair and slight beard stubble, wearing red fight shorts and 4oz MMA gloves",
         motion_personality |-> "aggressive_but_tiring"]
    @@
    "male_hk_80s_thug" :>
        [name |-> "\\u7537\\u5bf9\\u624b - \\u6e2f\\u7247\\u5c0f\\u6df7\\u6df7",
         role |-> "male_thug",
         nationality_style |-> "Hong Kong 1980s",
         visual_brief |-> "lean Hong Kong street thug in a wrinkled white shirt, loose dark trousers and worn leather shoes, slightly messy hair",
         motion_personality |-> "wild_and_showoff"]
    @@
    "female_wuxia_swordswoman" :>
        [name |-> "\\u5973\\u4e3b - \\u6b66\\u4fa0\\u5973\\u4fa0",
         role |-> "female_swordswoman",
         nationality_style |-> "Chinese ancient wuxia",
         visual_brief |-> "elegant young swordswoman in flowing light-colored robes, long black hair tied partly up, sword sheath on her back",
         motion_personality |-> "graceful_but_deadly"]
    @@
    "male_cn_street_punk" :>
        [name |-> "\\u7537\\u89d2\\u8272 - \\u73b0\\u4ee3\\u8857\\u5934\\u6df7\\u6df7",
         role |-> "male_street_punk",
         nationality_style |-> "Chinese modern street",
         visual_brief |-> "young Chinese street punk in a dark hoodie, ripped jeans and sneakers, short spiky hair, a bit cocky",
         motion_personality |-> "reckless_and_aggressive"]
    @@
    "male_cn_street_big" :>
        [name |-> "\\u7537\\u89d2\\u8272 - \\u73b0\\u4ee3\\u8857\\u5934\\u58ee\\u6c49",
         role |-> "male_street_heavy",
         nationality_style |-> "Chinese modern street",
         visual_brief |-> "broad-shouldered Chinese man in a bomber jacket, dark pants and boots, short hair, heavy build",
         motion_personality |-> "slow_but_powerful"]

\* STYLE_PRESETS: lines 151-177
STYLE_PRESETS_keys ==
    <<"cn_modern_sanda_gym",
      "hk_80s_factory",
      "cn_wuxia_courtyard",
      "us_mma_cage",
      "cn_modern_street_night">>

STYLE_PRESETS ==
    "cn_modern_sanda_gym" :>
        [label |-> "\\u4e2d\\u56fd\\u73b0\\u4ee3 - \\u6563\\u6253\\u9986",
         style_tags |-> <<"cn_modern_sanda", "gym_interior", "cinematic">>,
         description |-> "\\u73b0\\u4ee3\\u4e2d\\u56fd\\u6563\\u6253\\u8bad\\u7ec3\\u9986\\uff0c\\u51b7\\u8272\\u8367\\u5149\\u706f\\u3001\\u6c99\\u888b\\u3001\\u64c2\\u53f0\\u3001\\u955c\\u9762\\u5899\\u3002"]
    @@
    "hk_80s_factory" :>
        [label |-> "\\u9999\\u6e2f 80s - \\u5de5\\u5382/\\u4ed3\\u5e93",
         style_tags |-> <<"hk_80s_kungfu", "warehouse", "stylized">>,
         description |-> "80\\u5e74\\u4ee3\\u6e2f\\u7247\\u98ce\\u683c\\uff0c\\u8001\\u5de5\\u5382\\u6216\\u4ed3\\u5e93\\uff0c\\u6728\\u7bb1\\u3001\\u94c1\\u94fe\\u3001\\u7070\\u5c18\\u5149\\u675f\\u3002"]
    @@
    "cn_wuxia_courtyard" :>
        [label |-> "\\u53e4\\u4ee3\\u6b66\\u4fa0 - \\u5c71\\u95e8/\\u9662\\u843d",
         style_tags |-> <<"cn_wuxia", "ancient_courtyard", "fantasy_cinematic">>,
         description |-> "\\u53e4\\u4ee3\\u6b66\\u6797\\u95e8\\u6d3e\\u5c71\\u95e8\\u6216\\u5ead\\u9662\\uff0c\\u77f3\\u677f\\u5730\\u3001\\u6728\\u67f1\\u3001\\u98d8\\u52a8\\u7684\\u5e03\\u5e61\\u548c\\u6811\\u53f6\\u3002"]
    @@
    "us_mma_cage" :>
        [label |-> "\\u7f8e\\u56fd UFC \\u7b3c\\u6597",
         style_tags |-> <<"us_mma", "cage_arena", "sports_cinematic">>,
         description |-> "MMA \\u7b3c\\u5b50\\u64c2\\u53f0\\uff0c\\u5f3a\\u70c8\\u9876\\u5149\\uff0c\\u5468\\u56f4\\u89c2\\u4f17\\u5728\\u9ed1\\u6697\\u4e2d\\u543c\\u53eb\\u3002"]
    @@
    "cn_modern_street_night" :>
        [label |-> "\\u4e2d\\u56fd\\u73b0\\u4ee3 - \\u591c\\u665a\\u8857\\u5934\\u505c\\u8f66\\u573a",
         style_tags |-> <<"cn_modern_street", "parking_lot_night", "gritty_cinematic">>,
         description |-> "\\u57ce\\u5e02\\u591c\\u665a\\u7a7a\\u65f7\\u505c\\u8f66\\u573a\\uff0c\\u8def\\u706f\\u3001\\u9713\\u8679\\u53cd\\u5c04\\u5728\\u6e7f\\u6f09\\u6f09\\u5730\\u9762\\uff0c\\u9002\\u5408\\u8857\\u5934\\u7fa4\\u6bb4\\u3002"]

\* COMBO_PRESETS: lines 179-222
COMBO_PRESETS_keys ==
    <<"combo_jab_cross_lowkick",
      "combo_block_cross",
      "combo_clinch_knee_push",
      "combo_wuxia_qinggong_sword",
      "combo_street_brawl_3p">>

COMBO_PRESETS ==
    "combo_jab_cross_lowkick" :>
        [label |-> "\\u76f4\\u62f3 + \\u91cd\\u62f3 + \\u4f4e\\u626b",
         description |-> "a fast left jab to the face, a heavy right cross, then a powerful right low kick to the lead thigh",
         default_duration |-> 180]
    @@
    "combo_block_cross" :>
        [label |-> "\\u683c\\u6321 + \\u53f3\\u91cd\\u62f3\\u53cd\\u51fb",
         description |-> "she blocks an incoming strike, then fires a heavy right cross to the opponent's head",
         default_duration |-> 120]
    @@
    "combo_clinch_knee_push" :>
        [label |-> "\\u62b1\\u9888 + \\u819d\\u649e + \\u63a8\\u5f00",
         description |-> "she secures a clinch, drives a hard knee into the body, then shoves the opponent away",
         default_duration |-> 180]
    @@
    "combo_wuxia_qinggong_sword" :>
        [label |-> "\\u6b66\\u4fa0\\u8f7b\\u529f\\uff1a\\u95ea\\u8eab + \\u62d4\\u5251 + \\u817e\\u7a7a\\u4e00\\u51fb",
         description |-> "she uses light-footwork to vanish from the opponent's line of attack, appears at a new angle, draws her sword in one fluid motion, then launches into a brief airborne slash before landing lightly on a stone railing",
         default_duration |-> 280]
    @@
    "combo_street_brawl_3p" :>
        [label |-> "\\u8857\\u5934\\u7fa4\\u6bb4\\uff1a\\u4e00\\u6253\\u4e8c\\u7ec4\\u5408",
         description |-> "the main fighter faces two attackers at once: she elbows the attacker on her left, then front-kicks the one on her right, before grabbing one of them and shoving him hard into a parked car",
         default_duration |-> 250]

\* CAMERA_PRESETS: lines 224-240
CAMERA_PRESETS_keys ==
    <<"dynamic_close",
      "wide_reveal",
      "street_brawl_dynamic">>

CAMERA_PRESETS ==
    "dynamic_close" :>
        [label |-> "\\u52a8\\u6001\\u8fd1\\u666f\\u683c\\u6597\\u98ce",
         shots_template |-> "jab_cross_lowkick",
         description |-> "\\u624b\\u6301\\u8fd1\\u666f + \\u4f4e\\u673a\\u4f4d\\u8ddf\\u817f + \\u4e2d\\u666f\\u6536\\u5c3e\\u3002"]
    @@
    "wide_reveal" :>
        [label |-> "\\u5bbd\\u5e45\\u73af\\u5883\\u5c55\\u793a\\u98ce",
         shots_template |-> "wide_focus",
         description |-> "\\u5f00\\u5934\\u73af\\u5883\\u5927\\u5168\\u666f\\uff0c\\u4e2d\\u666f\\u6253\\u6597\\uff0c\\u6700\\u540e\\u62c9\\u8fdc\\u3002"]
    @@
    "street_brawl_dynamic" :>
        [label |-> "\\u8857\\u5934\\u7fa4\\u6bb4 - \\u6df7\\u4e71\\u52a8\\u6001\\u8fd0\\u955c",
         shots_template |-> "street_brawl_3p",
         description |-> "\\u7565\\u5e26\\u624b\\u6301\\u6296\\u52a8\\u7684\\u5927\\u666f + \\u4e2d\\u666f\\u5207\\u6362\\uff0c\\u7a81\\u51fa\\u4e00\\u6253\\u4e8c\\u7684\\u6df7\\u4e71\\u611f\\u548c\\u88ab\\u649e\\u8f66\\u8f86\\u7b49\\u73af\\u5883\\u53cd\\u9988\\u3002"]

\* ------------------------------------------------------------------------
\* build_camera_shots
\* ------------------------------------------------------------------------
\* round(duration_sec * num/den, 2) for the float literal num/den
RoundedFraction(duration_sec, num, den) ==
    Round2(FloatMul(FloatOfRatio(duration_sec, 100), FloatOfRatio(num, den)))

\* round(duration_sec, 2)
\* RoundedDuration clamping a negative duration to zero
RoundedDuration_clamped(duration_sec) ==
    IF duration_sec < 0 THEN 0 ELSE Round2(FloatOfRatio(duration_sec, 100))

RoundedDuration(duration_sec) == Round2(FloatOfRatio(duration_sec, 100))

\* jab_cross_lowkick_times with the second breakpoint at 70%
jab_cross_lowkick_times_at_70(duration_sec) ==
    [t1 |-> RoundedFraction(duration_sec, 3, 10),
     t2 |-> RoundedFraction(duration_sec, 7, 10),
     t3 |-> RoundedDuration(duration_sec)]

jab_cross_lowkick_times(duration_sec) ==
    [t1 |-> RoundedFraction(duration_sec, 3, 10),
     t2 |-> RoundedFraction(duration_sec, 8, 10),
     t3 |-> RoundedDuration(duration_sec)]

\* wide_focus_times with 0.07 typed for 0.7
wide_focus_times_typo(duration_sec) ==
    [t1 |-> RoundedFraction(duration_sec, 25, 100),
     t2 |-> RoundedFraction(duration_sec, 7, 100),
     t3 |-> RoundedDuration(duration_sec)]

wide_focus_times(duration_sec) ==
    [t1 |-> RoundedFraction(duration_sec, 25, 100),
     t2 |-> RoundedFraction(duration_sec, 7, 10),
     t3 |-> RoundedDuration(duration_sec)]

\* street_brawl_3p_times with t1's line copied for t2
street_brawl_3p_times_copied(duration_sec) ==
    [t1 |-> RoundedFraction(duration_sec, 3, 10),
     t2 |-> RoundedFraction(duration_sec, 3, 10),
     t3 |-> RoundedDuration(duration_sec)]

street_brawl_3p_times(duration_sec) ==
    [t1 |-> RoundedFraction(duration_sec, 3, 10),
     t2 |-> RoundedFraction(duration_sec, 75, 100),
     t3 |-> RoundedDuration(duration_sec)]

Shot(shot_id, start, end, brief, priority) ==
    [shot_id |-> shot_id, time_range |-> <<start, end>>,
     brief |-> brief, priority |-> priority]

jab_cross_lowkick_shots(t) ==
    << Shot("S01", 0, t.t1,
            "tight medium handheld shot framing both fighters from the waist up as she throws the jab and cross, camera slightly below eye level",
            "show_face_and_gloves_impact"),
       Shot("S02", t.t1, t.t2,
            "low tracking shot near the floor that follows the arc of her right shin slamming into his thigh, emphasizing muscle vibration and his leg buckling",
            "show_kick_power_and_leg_reaction"),
       Shot("S03", t.t2, t.t3,
            "medium shot pulling back slightly to show him stumbling sideways, catching his balance and revealing more of the environment",
            "show_overall_reaction_and_space") >>

wide_focus_shots(t) ==
    << Shot("S01", 0, t.t1,
            "wide establishing shot showing the whole space and both fighters circling each other",
            "show_environment_and_positions"),
       Shot("S02", t.t1, t.t2,
            "medium shot focusing on the main fighter as she lands the key strikes",
            "show_main_actions"),
       Shot("S03", t.t2, t.t3,
            "wide or medium-wide shot showing the aftermath and how both fighters are positioned after the exchange",
            "show_aftermath") >>

street_brawl_3p_shots(t) ==
    << Shot("S01", 0, t.t1,
            "wide shot in a dimly lit parking lot at night, showing the main fighter facing two attackers, wet pavement reflecting neon lights",
            "show_three_characters_and_environment"),
       Shot("S02", t.t1, t.t2,
            "chaotic handheld medium shot that stays close as she elbows the attacker on the left and front-kicks the one on the right, camera reacting to each hit",
            "show_elbow_and_front_kick_impacts"),
       Shot("S03", t.t2, t.t3,
            "medium-wide shot as she grabs one attacker and shoves him hard into a parked car, the car shakes and the other attacker recovers in the background",
            "show_shove_and_environment_reaction") >>

single_shot(duration_sec) ==
    << Shot("S01", 0, RoundedDuration(duration_sec),
            "single continuous medium shot showing the whole exchange",
            "show_whole_action") >>

build_camera_shots(template_name, duration_sec) ==
    IF template_name = "jab_cross_lowkick"
    THEN jab_cross_lowkick_shots(jab_cross_lowkick_times(duration_sec))
    ELSE IF template_name = "wide_focus"
    THEN wide_focus_shots(wide_focus_times(duration_sec))
    ELSE IF template_name = "street_brawl_3p"
    THEN street_brawl_3p_shots(street_brawl_3p_times(duration_sec))
    ELSE single_shot(duration_sec)

\* ------------------------------------------------------------------------
\* build_spec_json.  A call either returns a value or raises; d[k] on a
\* dict without the key k raises KeyError(k).
\* ------------------------------------------------------------------------
Return(v) == [exc |-> "none", value |-> v]
Raise(e, arg) == [exc |-> e, arg |-> arg]

character_entry(id, char) ==
    [id |-> id,
     role |-> char.role,
     nationality_style |-> char.nationality_style,
     visual_brief |-> char.visual_brief,
     motion_personality |-> char.motion_personality]

\* has_extra without the membership test
has_extra_unguarded(extra_char_key) == extra_char_key # "none"

has_extra(extra_char_key) ==
    extra_char_key # "none" /\ extra_char_key \in DOMAIN CHARACTERS

\* build_characters_block filling the opponent from main_char
build_characters_block_same(main_char, opp_char, extra_char_key) ==
    LET characters_block ==
            [main     |-> character_entry("main_fighter", main_char),
             opponent |-> character_entry("opponent_fighter", main_char)]
    IN  IF has_extra(extra_char_key)
        THEN [main     |-> characters_block.main,
              opponent |-> characters_block.opponent,
              extras   |-> << character_entry("extra_fighter_1",
                                              CHARACTERS[extra_char_key]) >>]
        ELSE characters_block

\* build_characters_block starting from an empty extras list
build_characters_block_empty_extras(main_char, opp_char, extra_char_key) ==
    [main     |-> character_entry("main_fighter", main_char),
     opponent |-> character_entry("opponent_fighter", opp_char),
     extras   |-> IF has_extra(extra_char_key)
                  THEN << character_entry("extra_fighter_1",
                                          CHARACTERS[extra_char_key]) >>
                  ELSE << >>]

build_characters_block(main_char, opp_char, extra_char_key) ==
    LET characters_block ==
            [main     |-> character_entry("main_fighter", main_char),
             opponent |-> character_entry("opponent_fighter", opp_char)]
    IN  IF has_extra(extra_char_key)
        THEN [main     |-> characters_block.main,
              opponent |-> characters_block.opponent,
              extras   |-> << character_entry("extra_fighter_1",
                                              CHARACTERS[extra_char_key]) >>]
        ELSE characters_block

build_spec_json(duration_sec, style_preset_key, main_char_key, opp_char_key, extra_char_key, combo_key, energy_level, violence_level, camera_preset_key, include_micro, include_breath, include_env, include_camera_detail, blood_level, audio_hint) ==
    IF style_preset_key \notin DOMAIN STYLE_PRESETS
    THEN Raise("KeyError", style_preset_key)
    ELSE IF main_char_key \notin DOMAIN CHARACTERS
    THEN Raise("KeyError", main_char_key)
    ELSE IF opp_char_key \notin DOMAIN CHARACTERS
    THEN Raise("KeyError", opp_char_key)
    ELSE IF combo_key \notin DOMAIN COMBO_PRESETS
    THEN Raise("KeyError", combo_key)
    ELSE IF camera_preset_key \notin DOMAIN CAMERA_PRESETS
    THEN Raise("KeyError", camera_preset_key)
    ELSE IF has_extra(extra_char_key) /\ extra_char_key \notin DOMAIN CHARACTERS
    THEN Raise("KeyError", extra_char_key)   \* CHARACTERS[extra_char_key], line 373
    ELSE
    LET style_preset  == STYLE_PRESETS[style_preset_key]
        style_tags    == style_preset.style_tags
        main_char     == CHARACTERS[main_char_key]
        opp_char      == CHARACTERS[opp_char_key]
        combo         == COMBO_PRESETS[combo_key]
        camera_preset == CAMERA_PRESETS[camera_preset_key]
        shots         == build_camera_shots(camera_preset.shots_template, duration_sec)
    IN  Return(
         [clip_config |->
            [duration_sec   |-> duration_sec,
             aspect_ratio   |-> "9:16",
             style_tags     |-> style_tags,
             energy_level   |-> energy_level,
             violence_level |-> violence_level],
          characters |-> build_characters_block(main_char, opp_char, extra_char_key),
          combo_plan |->
            [combo_id               |-> combo_key,
             high_level_description |-> combo.description,
             tempo                  |-> "explosive_then_brief_pause",
             intensity              |-> "high"],
          camera_plan |->
            [overall_style |-> camera_preset.label,
             shots         |-> shots],
          extra_controls |->
            [include_micro_expressions    |-> include_micro,
             include_breath_sweat_fatigue |-> include_breath,
             include_environment_reaction |-> include_env,
             include_camera_details       |-> include_camera_detail,
             blood                        |-> blood_level,
             audio_hint                   |-> audio_hint,
             safety_constraints           |-> "no graphic gore, follow platform rules, respect the blood setting."],
          output_prefs |->
            [need_english_video_prompt |-> TRUE,
             need_chinese_timeline     |-> TRUE,
             timeline_step             |-> 10]])

\* ------------------------------------------------------------------------
\* Text.  A str is a sequence of characters; a character outside ASCII is
\* named by its code point, and "LF" is the line feed.
\* ------------------------------------------------------------------------
\* the characters str.strip() removes: those for which str.isspace() holds
Whitespace ==
    {"TAB", "LF", "U+000B", "U+000C", "CR",
     "U+001C", "U+001D", "U+001E", "U+001F", " ",
     "U+0085", "U+00A0", "U+1680",
     "U+2000", "U+2001", "U+2002", "U+2003", "U+2004", "U+2005",
     "U+2006", "U+2007", "U+2008", "U+2009", "U+200A",
     "U+2028", "U+2029", "U+202F", "U+205F", "U+3000"}

\* the separator literal of lines 550-551
MARKER ==
    <<"U+2014", "U+2014", " ", "U+4E2D", "U+6587", "U+65F6", "U+95F4",
      "U+8F74", "U+5206", "U+955C", " ", "U+2014", "U+2014">>

\* str_find taking the last occurrence, as rsplit would
RECURSIVE str_rfind_from(_, _, _)
str_rfind_from(text, sep, i) ==
    IF i < 1 THEN 0
    ELSE IF SubSeq(text, i, i + Len(sep) - 1) = sep THEN i
    ELSE str_rfind_from(text, sep, i - 1)

str_rfind(text, sep, i) == str_rfind_from(text, sep, Len(text) - Len(sep) + 1)

\* text.find(sep) from index i on: the least index of an occurrence, 0 if none
RECURSIVE str_find(_, _, _)
str_find(text, sep, i) ==
    IF i + Len(sep) - 1 > Len(text) THEN 0
    ELSE IF SubSeq(text, i, i + Len(sep) - 1) = sep THEN i
    ELSE str_find(text, sep, i + 1)

\* sep in text
str_contains(text, sep) == str_find(text, sep, 1) # 0

\* text.split(sep, 1) for a text that contains sep
str_split_once(text, sep) ==
    LET i == str_find(text, sep, 1)
    IN  <<SubSeq(text, 1, i - 1), SubSeq(text, i + Len(sep), Len(text))>>

RECURSIVE str_lstrip(_)
str_lstrip(t) ==
    IF t # <<>> /\ Head(t) \in Whitespace THEN str_lstrip(Tail(t)) ELSE t

RECURSIVE str_rstrip(_)
str_rstrip(t) ==
    IF t # <<>> /\ t[Len(t)] \in Whitespace
    THEN str_rstrip(SubSeq(t, 1, Len(t) - 1)) ELSE t

str_strip(t) == str_rstrip(str_lstrip(t))

\* en_part, zh_part of lines 550-553
split_reply(text) ==
    IF str_contains(text, MARKER)
    THEN str_split_once(text, MARKER)
    ELSE <<text, <<>>>>

\* ------------------------------------------------------------------------
\* State
\* ------------------------------------------------------------------------
VARIABLES
    pc,            \* where the script run (or the direct call) stands
    API_KEY,       \* os.getenv("GEMINI_API_KEY"): None, or a string
    client,        \* whether genai.Client(api_key=API_KEY) has been created
    widgets,       \* the widgets' values, kept by the session across reruns
    generate_btn,  \* whether this run is the rerun a button press started
    spec_json,     \* the specification this run assembled, or NoValue
    calls,         \* generate_content calls this run has sent, each with its credential
    text,          \* the reply of call_gemini_with_spec, or NoValue
    en_part,       \* the first segment of the reply
    zh_part,       \* the second segment of the reply
    shown,         \* the elements this run has put in the result column
    exc,           \* the exception that ended this run, or "none"
    call,          \* a direct call of one of the two functions, or NoValue
    result         \* what the direct call returned or raised, or NoValue

vars == <<pc, API_KEY, client, widgets, generate_btn, spec_json, calls, text,
          en_part, zh_part, shown, exc, call, result>>

None == "<None>"
\* a name the run has not bound, an argument not given
NoValue == [unbound |-> TRUE]

\* ------------------------------------------------------------------------
\* Bounds
\* ------------------------------------------------------------------------
MaxDur == 600
NegDur == 20
MaxKeys == 2
MaxOptions == 1
MaxSlider == 1
MaxTokens == 3
MaxChanged == 2

RECURSIVE SeqRange(_)
SeqRange(s) == IF s = <<>> THEN {} ELSE {Head(s)} \cup SeqRange(Tail(s))

FirstKeys(keys, n) == SeqRange(SubSeq(keys, 1, IF n < Len(keys) THEN n ELSE Len(keys)))

\* ------------------------------------------------------------------------
\* The widgets of the left column (lines 440-512)
\* ------------------------------------------------------------------------
SLIDER_MIN == 80
SLIDER_MAX == 600
SLIDER_STEP == 10

extra_options == <<"none">> \o CHARACTERS_keys
energy_options == <<"low", "medium", "high">>
violence_options == <<"soft", "moderate", "hard">>
blood_options == <<"none", "light", "visible">>
\* texts the user may type into the text input of line 507
audio_hints ==
    <<"short sharp impact sounds, ambient noise, do not overdescribe music", "">>

\* every widget at its default: index 0 (index 1 for the opponent), the
\* combo's default duration, the checkboxes ticked
default_widgets ==
    [style_key         |-> STYLE_PRESETS_keys[1],
     main_char_key     |-> CHARACTERS_keys[1],
     opp_char_key      |-> CHARACTERS_keys[IF Len(CHARACTERS_keys) > 1 THEN 2 ELSE 1],
     extra_char_key    |-> extra_options[1],
     combo_key         |-> COMBO_PRESETS_keys[1],
     duration_sec      |-> COMBO_PRESETS[COMBO_PRESETS_keys[1]].default_duration,
     energy_level      |-> energy_options[3],
     violence_level    |-> violence_options[2],
     camera_preset_key |-> CAMERA_PRESETS_keys[1],
     include_micro         |-> TRUE,
     include_breath        |-> TRUE,
     include_env           |-> TRUE,
     include_camera_detail |-> TRUE,
     blood_level       |-> blood_options[1],
     audio_hint        |-> audio_hints[1]]

\* the values the user may give a widget: the options of its selectbox, the
\* positions of the slider
widget_options(field) ==
    CASE field = "style_key"         -> FirstKeys(STYLE_PRESETS_keys, MaxOptions)
      [] field = "main_char_key"     -> FirstKeys(CHARACTERS_keys, MaxOptions)
      [] field = "opp_char_key"      -> FirstKeys(CHARACTERS_keys, MaxOptions + 1)
      [] field = "extra_char_key"    -> FirstKeys(extra_options, MaxOptions + 1)
      [] field = "combo_key"         -> FirstKeys(COMBO_PRESETS_keys, MaxOptions + 2)
      [] field = "camera_preset_key" -> FirstKeys(CAMERA_PRESETS_keys, MaxOptions)
      [] field = "duration_sec"      ->
            {SLIDER_MIN + SLIDER_STEP * i : i \in 0..MaxSlider}
            \cap SLIDER_MIN..SLIDER_MAX
      [] field = "energy_level"      -> SeqRange(energy_options)
      [] field = "violence_level"    -> SeqRange(violence_options)
      [] field = "blood_level"       -> SeqRange(blood_options)
      [] field = "audio_hint"        -> SeqRange(audio_hints)
      [] OTHER                       -> BOOLEAN

\* the fifteen widgets of lines 443-510
changeable == {"style_key", "main_char_key", "opp_char_key", "extra_char_key",
               "combo_key", "duration_sec", "energy_level", "violence_level",
               "camera_preset_key", "include_micro", "include_breath",
               "include_env", "include_camera_detail", "blood_level",
               "audio_hint"}

\* a widget changed by the user.  The slider's value argument is the
\* combo's default duration (line 479): a combo with another default makes
\* it a new slider, on that default; a combo with the same default leaves
\* the slider where the user put it.
set_widget(w, field, v) ==
    IF /\ field = "combo_key"
       /\ COMBO_PRESETS[v].default_duration
             # COMBO_PRESETS[w.combo_key].default_duration
    THEN [w EXCEPT !.combo_key = v,
                   !.duration_sec = COMBO_PRESETS[v].default_duration]
    ELSE [w EXCEPT ![field] = v]

\* the widgets the user has moved off their defaults
moved_widgets(w) ==
    {f \in changeable :
        IF f = "duration_sec"
        THEN w.duration_sec # COMBO_PRESETS[w.combo_key].default_duration
        ELSE w[f] # default_widgets[f]}

\* ------------------------------------------------------------------------
\* The Streamlit script.  Every interaction reruns it from its first line;
\* a run stops at the first uncaught exception.
\* ------------------------------------------------------------------------
\* Truthy testing for None only
Truthy_not_none(v) == v # None

\* bool(v) of an os.getenv result
Truthy(v) == v # None /\ v # ""

Element(kind, label, value) == [kind |-> kind, label |-> label, value |-> value]

\* line 515: the header of the result column
result_header == Element("header", "\\u2462 \\u7ed3\\u679c\\u9884\\u89c8", NoValue)

\* lines 13-17: the credential check and the client
ModuleTop ==
    /\ pc = "start"
    /\ IF ~Truthy(API_KEY)
       THEN /\ exc' = "RuntimeError"
            /\ pc' = "failed"
            /\ client' = client
       ELSE /\ client' = TRUE
            /\ pc' = "configured"
            /\ exc' = exc
    /\ UNCHANGED <<API_KEY, widgets, generate_btn, spec_json, calls, text,
                   en_part, zh_part, shown, call, result>>

\* lines 425-517 and 564-565: a run no button press started
RenderIdle ==
    /\ pc = "configured"
    /\ ~generate_btn
    /\ shown' = shown \o << result_header, Element("info", "\\u5728\\u5de6\\u4fa7\\u5b8c\\u6210\\u914d\\u7f6e\\u540e\\uff0c\\u70b9\\u51fb\\u300c\\u751f\\u6210 spec_json \\u5e76\\u8c03\\u7528 Gemini\\u300d\\u3002", NoValue) >>
    /\ pc' = "idle"
    /\ UNCHANGED <<API_KEY, client, widgets, generate_btn, spec_json, calls,
                   text, en_part, zh_part, exc, call, result>>

\* lines 425-546: the run a button press started, up to the call
BuildSpec ==
    /\ pc = "configured"
    /\ generate_btn
    /\ LET r == build_spec_json(
                    widgets.duration_sec, widgets.style_key,
                    widgets.main_char_key, widgets.opp_char_key,
                    widgets.extra_char_key, widgets.combo_key,
                    widgets.energy_level, widgets.violence_level,
                    widgets.camera_preset_key, widgets.include_micro,
                    widgets.include_breath, widgets.include_env,
                    widgets.include_camera_detail, widgets.blood_level,
                    widgets.audio_hint)
       IN  IF r.exc # "none"
           THEN /\ exc' = r.exc
                /\ pc' = "failed"
                /\ shown' = Append(shown, result_header)
                /\ spec_json' = spec_json
           ELSE /\ spec_json' = r.value
                /\ shown' = shown \o
                     << result_header,
                        Element("subheader", "\\u7ed3\\u6784\\u5316 spec_json\\uff08\\u53ef\\u4ee5\\u4e0b\\u8f7d / \\u590d\\u7528\\uff09", NoValue),
                        Element("json", "", r.value),
                        Element("download_button", "\\u4e0b\\u8f7d spec_json", r.value),
                        Element("subheader", "\\u8c03\\u7528 Gemini \\u751f\\u6210\\u6587\\u6848", NoValue) >>
                /\ pc' = "built"
                /\ exc' = exc
    /\ UNCHANGED <<API_KEY, client, widgets, generate_btn, calls, text,
                   en_part, zh_part, call, result>>

\* lines 547-548 and 58-79: call_gemini_with_spec sends its one request
CallGemini ==
    /\ pc = "built"
    /\ calls' = Append(calls, [model      |-> "gemini-2.0-flash",
                               credential |-> API_KEY,
                               spec       |-> spec_json])
    /\ pc' = "awaiting"
    /\ UNCHANGED <<API_KEY, client, widgets, generate_btn, spec_json, text,
                   en_part, zh_part, shown, exc, call, result>>

\* lines 555-563: what the run shows of a reply
result_preview(reply, en, zh) ==
    << Element("markdown", "**\\u2460 \\u82f1\\u6587\\u89c6\\u9891\\u63d0\\u793a\\u8bcd**", NoValue),
       Element("text_area", "English Prompt", str_strip(en)) >>
    \o
    IF str_strip(zh) # <<>>
    THEN << Element("markdown", "**\\u2461 \\u4e2d\\u6587\\u65f6\\u95f4\\u8f74\\u5206\\u955c\\u811a\\u672c**", NoValue),
            Element("text_area", "\\u4e2d\\u6587\\u5206\\u955c", str_strip(zh)) >>
    ELSE << Element("info", "\\u672a\\u80fd\\u81ea\\u52a8\\u5206\\u5272\\u4e2d\\u82f1\\u6587\\uff0c\\u5b8c\\u6574\\u8f93\\u51fa\\u5982\\u4e0b\\uff1a", NoValue),
            Element("text_area", "\\u5b8c\\u6574\\u8f93\\u51fa", reply) >>

\* the replies the service may give: up to MaxTokens pieces, each the
\* separator, its first three characters (two dashes and a space), a
\* letter or an ideographic space
ReplyTokens == {MARKER, SubSeq(MARKER, 1, 3), <<"A">>, <<"U+3000">>}

RECURSIVE Replies(_)
Replies(n) ==
    IF n = 0 THEN {<<>>}
    ELSE LET shorter == Replies(n - 1)
         IN  shorter \cup {r \o t : r \in shorter, t \in ReplyTokens}

\* lines 80 and 548-563: the call returns response.text; the run splits
\* and shows it
GeminiReturns ==
    /\ pc = "awaiting"
    /\ \E reply \in Replies(MaxTokens) :
         LET parts == split_reply(reply)
         IN  /\ text' = reply
             /\ en_part' = parts[1]
             /\ zh_part' = parts[2]
             /\ shown' = shown \o result_preview(reply, parts[1], parts[2])
    /\ pc' = "idle"
    /\ UNCHANGED <<API_KEY, client, widgets, generate_btn, spec_json, calls,
                   exc, call, result>>

\* GeminiRaises catching the error and sending the request again
GeminiRaises_retry ==
    /\ pc = "awaiting"
    /\ pc' = "built"
    /\ UNCHANGED <<API_KEY, client, widgets, generate_btn, spec_json, calls,
                   text, en_part, zh_part, shown, exc, call, result>>

\* line 73: generate_content raises (a failed or timed-out request); nothing
\* catches it
GeminiRaises ==
    /\ pc = "awaiting"
    /\ exc' = "APIError"
    /\ pc' = "failed"
    /\ UNCHANGED <<API_KEY, client, widgets, generate_btn, spec_json, calls,
                   text, en_part, zh_part, shown, call, result>>

\* a rerun starts: the script's names are unbound again
StartRun(pressed) ==
    /\ pc' = "start"
    /\ generate_btn' = pressed
    /\ client' = FALSE
    /\ spec_json' = NoValue
    /\ calls' = <<>>
    /\ text' = NoValue
    /\ en_part' = NoValue
    /\ zh_part' = NoValue
    /\ shown' = <<>>
    /\ exc' = "none"
    /\ UNCHANGED <<API_KEY, call, result>>

\* the widgets are on the page once a run got past line 512, also while
\* the run waits for the service; an interaction then abandons the run,
\* and the reply of a request it has sent is never shown
WidgetsShown ==
    \/ pc \in {"built", "awaiting", "idle"}
    \/ (pc = "failed" /\ exc # "RuntimeError")

\* lines 443-510: the user changes a widget
ChangeWidget ==
    /\ WidgetsShown
    /\ \E field \in changeable :
         \E v \in widget_options(field) \ {widgets[field]} :
            /\ widgets' = set_widget(widgets, field, v)
            /\ Cardinality(moved_widgets(widgets')) <= MaxChanged
    /\ StartRun(FALSE)

\* line 512: the user presses the button
PressGenerate ==
    /\ WidgetsShown
    /\ widgets' = widgets
    /\ StartRun(TRUE)

\* lines 539 and 556-563: the user clicks the download button or edits a
\* text area of the result column; the script runs again with the left
\* column as it was and the button not pressed
UseResultWidget ==
    /\ WidgetsShown
    /\ \E i \in 1..Len(shown) : shown[i].kind \in {"download_button", "text_area"}
    /\ widgets' = widgets
    /\ StartRun(FALSE)

Init ==
    /\ pc = "start"
    /\ API_KEY \in {None, "", "test-api-key"}
    /\ client = FALSE
    /\ widgets = default_widgets
    /\ generate_btn = FALSE
    /\ spec_json = NoValue
    /\ calls = <<>>
    /\ text = NoValue
    /\ en_part = NoValue
    /\ zh_part = NoValue
    /\ shown = <<>>
    /\ exc = "none"
    /\ call = NoValue
    /\ result = NoValue

Next ==
    \/ ModuleTop
    \/ RenderIdle
    \/ BuildSpec
    \/ CallGemini
    \/ GeminiReturns
    \/ GeminiRaises
    \/ ChangeWidget
    \/ PressGenerate
    \/ UseResultWidget

Spec == Init /\ [][Next]_vars

\* ------------------------------------------------------------------------
\* The two functions called directly, with arguments of any value
\* ------------------------------------------------------------------------
TemplateNames ==
    {"jab_cross_lowkick", "wide_focus", "street_brawl_3p", "single_take", ""}

KeyChoices(keys, n) == FirstKeys(keys, n) \cup {"no_such_key"}

SpecDurations ==
    {COMBO_PRESETS[k].default_duration : k \in DOMAIN COMBO_PRESETS}
    \cup {SLIDER_MIN, SLIDER_MAX}

ShotCalls ==
    [fn : {"build_camera_shots"},
     template_name : TemplateNames,
     duration_sec : (-NegDur)..MaxDur]

SpecCalls ==
    [fn : {"build_spec_json"},
     duration_sec : SpecDurations,
     style_preset_key : KeyChoices(STYLE_PRESETS_keys, MaxKeys),
     main_char_key : KeyChoices(CHARACTERS_keys, MaxKeys),
     opp_char_key : KeyChoices(CHARACTERS_keys, MaxKeys),
     extra_char_key : {"none"} \cup KeyChoices(CHARACTERS_keys, MaxKeys),
     combo_key : KeyChoices(COMBO_PRESETS_keys, MaxKeys),
     camera_preset_key : KeyChoices(CAMERA_PRESETS_keys, MaxKeys + 1)]

CallBuildCameraShots ==
    /\ pc = "call"
    /\ call.fn = "build_camera_shots"
    /\ result' = Return(build_camera_shots(call.template_name, call.duration_sec))
    /\ pc' = "returned"
    /\ UNCHANGED <<API_KEY, client, widgets, generate_btn, spec_json, calls,
                   text, en_part, zh_part, shown, exc, call>>

CallBuildSpecJson ==
    /\ pc = "call"
    /\ call.fn = "build_spec_json"
    /\ result' = build_spec_json(
                    call.duration_sec, call.style_preset_key,
                    call.main_char_key, call.opp_char_key,
                    call.extra_char_key, call.combo_key,
                    default_widgets.energy_level, default_widgets.violence_level,
                    call.camera_preset_key, default_widgets.include_micro,
                    default_widgets.include_breath, default_widgets.include_env,
                    default_widgets.include_camera_detail,
                    default_widgets.blood_level, default_widgets.audio_hint)
    /\ pc' = "returned"
    /\ UNCHANGED <<API_KEY, client, widgets, generate_btn, spec_json, calls,
                   text, en_part, zh_part, shown, exc, call>>

InitFn ==
    /\ pc = "call"
    /\ call \in ShotCalls \cup SpecCalls
    /\ result = NoValue
    /\ API_KEY = "test-api-key"
    /\ client = TRUE
    /\ widgets = default_widgets
    /\ generate_btn = FALSE
    /\ spec_json = NoValue
    /\ calls = <<>>
    /\ text = NoValue
    /\ en_part = NoValue
    /\ zh_part = NoValue
    /\ shown = <<>>
    /\ exc = "none"

NextFn ==
    \/ CallBuildCameraShots
    \/ CallBuildSpecJson

SpecFn == InitFn /\ [][NextFn]_vars

\* ------------------------------------------------------------------------
\* Properties
\* ------------------------------------------------------------------------
SupportedLayouts == {"jab_cross_lowkick", "wide_focus", "street_brawl_3p"}

ShotsReturned ==
    /\ pc = "returned"
    /\ call.fn = "build_camera_shots"

SpecReturned ==
    /\ pc = "returned"
    /\ call.fn = "build_spec_json"
    /\ result.exc = "none"

TimeRanges(shots) == [i \in 1..Len(shots) |-> shots[i].time_range]

\* h hundredths is a hundredth nearest to pct percent of d hundredths
Nearest(h, pct, d) ==
    /\ 100 * h - pct * d <= 50
    /\ pct * d - 100 * h <= 50

\* C1: for the three supported layouts and every positive duration, the
\* shots' time ranges are contiguous (each starts where the one before
\* ends), do not overlap (no range ends before it starts), the first starts
\* at 0 and the last ends within 0.01 of the duration.
C1_ContiguousTimeline ==
    (/\ ShotsReturned
     /\ call.template_name \in SupportedLayouts
     /\ call.duration_sec > 0)
    => LET shots == result.value
       IN  /\ result.exc = "none"
           /\ Len(shots) >= 1
           /\ shots[1].time_range[1] = 0
           /\ \A i \in 2..Len(shots) :
                 shots[i].time_range[1] = shots[i - 1].time_range[2]
           /\ \A i \in 1..Len(shots) :
                 shots[i].time_range[1] <= shots[i].time_range[2]
           /\ shots[Len(shots)].time_range[2] - call.duration_sec <= 1
           /\ call.duration_sec - shots[Len(shots)].time_range[2] <= 1

\* wide_focus at 1.3 s: 1.3 * 0.25 is a double just above 0.325, so t1 = 0.33
C1_Witness ==
    /\ ShotsReturned
    /\ call.template_name = "wide_focus"
    /\ call.duration_sec = 130
    /\ TimeRanges(result.value) = <<<<0, 33>>, <<33, 91>>, <<91, 130>>>>

Breakpoints(template_name) ==
    CASE template_name = "jab_cross_lowkick" -> <<30, 80>>
      [] template_name = "wide_focus"        -> <<25, 70>>
      [] template_name = "street_brawl_3p"   -> <<30, 75>>

\* C2 as claimed: for a supported layout and every duration, exactly three
\* shots S01, S02, S03 come back in time order (0 <= t1 <= t2 <= end), with
\* the two breakpoints a nearest hundredth to 30%/80% (jab_cross_lowkick),
\* 25%/70% (wide_focus), 30%/75% (street_brawl_3p) of the duration and the
\* last end the duration rounded to two decimals; build_spec_json with
\* duration 1.8 and a camera preset of layout jab_cross_lowkick gives the
\* time ranges [0.0,0.54], [0.54,1.44], [1.44,1.8].
C2_AnyDurationInTimeOrder ==
    /\ (ShotsReturned /\ call.template_name \in SupportedLayouts)
       => LET shots == result.value
              d     == call.duration_sec
              bp    == Breakpoints(call.template_name)
              t1    == shots[1].time_range[2]
              t2    == shots[2].time_range[2]
          IN  /\ Len(shots) = 3
              /\ [i \in 1..3 |-> shots[i].shot_id] = <<"S01", "S02", "S03">>
              /\ TimeRanges(shots) = <<<<0, t1>>, <<t1, t2>>, <<t2, d>>>>
              /\ Nearest(t1, bp[1], d)
              /\ Nearest(t2, bp[2], d)
              /\ 0 <= t1 /\ t1 <= t2 /\ t2 <= d
    /\ (/\ SpecReturned
        /\ call.duration_sec = 180
        /\ CAMERA_PRESETS[call.camera_preset_key].shots_template = "jab_cross_lowkick")
       => TimeRanges(result.value.camera_plan.shots)
             = <<<<0, 54>>, <<54, 144>>, <<144, 180>>>>

\* C2, amended: for a supported layout and every duration, exactly three
\* shots S01, S02, S03 come back, with the two breakpoints a nearest
\* hundredth to 30%/80% (jab_cross_lowkick), 25%/70% (wide_focus), 30%/75%
\* (street_brawl_3p) of the duration and the last end the duration rounded
\* to two decimals; the shots are in time order for a duration >= 0 and run
\* backwards in time (0 >= t1 >= t2 >= end) for a negative one;
\* build_spec_json with duration 1.8 and a camera preset of layout
\* jab_cross_lowkick gives the time ranges [0.0,0.54], [0.54,1.44],
\* [1.44,1.8].
C2_ThreeShotsAtBreakpoints ==
    /\ (ShotsReturned /\ call.template_name \in SupportedLayouts)
       => LET shots == result.value
              d     == call.duration_sec
              bp    == Breakpoints(call.template_name)
              t1    == shots[1].time_range[2]
              t2    == shots[2].time_range[2]
          IN  /\ Len(shots) = 3
              /\ [i \in 1..3 |-> shots[i].shot_id] = <<"S01", "S02", "S03">>
              /\ TimeRanges(shots) = <<<<0, t1>>, <<t1, t2>>, <<t2, d>>>>
              /\ Nearest(t1, bp[1], d)
              /\ Nearest(t2, bp[2], d)
              /\ d >= 0 => (0 <= t1 /\ t1 <= t2 /\ t2 <= d)
              /\ d < 0 => (0 >= t1 /\ t1 >= t2 /\ t2 >= d)
    /\ (/\ SpecReturned
        /\ call.duration_sec = 180
        /\ CAMERA_PRESETS[call.camera_preset_key].shots_template = "jab_cross_lowkick")
       => TimeRanges(result.value.camera_plan.shots)
             = <<<<0, 54>>, <<54, 144>>, <<144, 180>>>>

C2_Witness ==
    /\ SpecReturned
    /\ call.duration_sec = 180
    /\ call.camera_preset_key = "dynamic_close"
    /\ Len(result.value.camera_plan.shots) = 3

\* C3: for valid preset keys, the specification's characters.main and
\* characters.opponent carry the role, nationality_style, visual_brief and
\* motion_personality of CHARACTERS[main_char_key] and
\* CHARACTERS[opp_char_key], also when the two keys are the same.
CopiedFields == {"role", "nationality_style", "visual_brief", "motion_personality"}

C3_CharactersFromCatalog ==
    (/\ pc = "returned"
     /\ call.fn = "build_spec_json"
     /\ call.style_preset_key \in DOMAIN STYLE_PRESETS
     /\ call.main_char_key \in DOMAIN CHARACTERS
     /\ call.opp_char_key \in DOMAIN CHARACTERS
     /\ call.combo_key \in DOMAIN COMBO_PRESETS
     /\ call.camera_preset_key \in DOMAIN CAMERA_PRESETS)
    => /\ result.exc = "none"
       /\ \A f \in CopiedFields :
            /\ result.value.characters.main[f] = CHARACTERS[call.main_char_key][f]
            /\ result.value.characters.opponent[f] = CHARACTERS[call.opp_char_key][f]

C3_Witness ==
    /\ SpecReturned
    /\ call.main_char_key = call.opp_char_key
    /\ result.value.characters.main.id = "main_fighter"
    /\ result.value.characters.opponent.id = "opponent_fighter"
    /\ result.value.characters.opponent.visual_brief
          = CHARACTERS[call.main_char_key].visual_brief

\* C4 as claimed: a key absent from its catalog, the extra character's key
\* (other than "none") included, makes build_spec_json raise KeyError.
C4_AnyMissingKeyRaises ==
    (/\ pc = "returned"
     /\ call.fn = "build_spec_json"
     /\ \/ call.style_preset_key \notin DOMAIN STYLE_PRESETS
        \/ call.main_char_key \notin DOMAIN CHARACTERS
        \/ call.opp_char_key \notin DOMAIN CHARACTERS
        \/ (call.extra_char_key # "none" /\ call.extra_char_key \notin DOMAIN CHARACTERS)
        \/ call.combo_key \notin DOMAIN COMBO_PRESETS
        \/ call.camera_preset_key \notin DOMAIN CAMERA_PRESETS)
    => result.exc = "KeyError"

\* C4, amended: a style, main character, opponent, combo or camera key
\* absent from its catalog makes build_spec_json raise KeyError, naming the
\* first such key in that order, and return no specification; with those
\* five present, an extra character key absent from CHARACTERS raises
\* nothing: the specification comes back without an extras entry.
RequiredKeysPresent(c) ==
    /\ c.style_preset_key \in DOMAIN STYLE_PRESETS
    /\ c.main_char_key \in DOMAIN CHARACTERS
    /\ c.opp_char_key \in DOMAIN CHARACTERS
    /\ c.combo_key \in DOMAIN COMBO_PRESETS
    /\ c.camera_preset_key \in DOMAIN CAMERA_PRESETS

FirstMissing(c) ==
    IF c.style_preset_key \notin DOMAIN STYLE_PRESETS THEN c.style_preset_key
    ELSE IF c.main_char_key \notin DOMAIN CHARACTERS THEN c.main_char_key
    ELSE IF c.opp_char_key \notin DOMAIN CHARACTERS THEN c.opp_char_key
    ELSE IF c.combo_key \notin DOMAIN COMBO_PRESETS THEN c.combo_key
    ELSE c.camera_preset_key

C4_RequiredKeyMissingRaises ==
    (pc = "returned" /\ call.fn = "build_spec_json")
    => IF ~RequiredKeysPresent(call)
       THEN /\ result.exc = "KeyError"
            /\ result.arg = FirstMissing(call)
            /\ "value" \notin DOMAIN result
       ELSE /\ result.exc = "none"
            /\ call.extra_char_key \notin DOMAIN CHARACTERS
                  => "extras" \notin DOMAIN result.value.characters

C4_Witness ==
    /\ pc = "returned"
    /\ call.fn = "build_spec_json"
    /\ call.camera_preset_key = "no_such_key"
    /\ call.extra_char_key = "no_such_key"
    /\ result.exc = "KeyError"

\* C5: when the reply contains the separator, en_part is the text before
\* its first occurrence and zh_part all the text after it (a later
\* occurrence stays in zh_part), and each is shown without its surrounding
\* whitespace; when the reply has no separator, en_part is the whole reply
\* and zh_part is empty.
Occurs(t, sep) ==
    \E i \in 1..(Len(t) - Len(sep) + 1) : SubSeq(t, i, i + Len(sep) - 1) = sep

\* s is t without its leading and trailing whitespace
IsStripOf(s, t) ==
    \E a, b \in 0..Len(t) :
        /\ a + b <= Len(t)
        /\ s = SubSeq(t, a + 1, Len(t) - b)
        /\ \A i \in 1..a : t[i] \in Whitespace
        /\ \A i \in (Len(t) - b + 1)..Len(t) : t[i] \in Whitespace
        /\ s # <<>> => (s[1] \notin Whitespace /\ s[Len(s)] \notin Whitespace)

TextAreas(label) ==
    {shown[i].value : i \in {j \in 1..Len(shown) :
                               shown[j].kind = "text_area" /\ shown[j].label = label}}

ChineseArea == "\\u4e2d\\u6587\\u5206\\u955c"

C5_MarkerSplit ==
    (pc = "idle" /\ generate_btn)
    => /\ IF Occurs(text, MARKER)
          THEN /\ text = en_part \o MARKER \o zh_part
               /\ \A i \in 1..Len(en_part) :
                     SubSeq(text, i, i + Len(MARKER) - 1) # MARKER
          ELSE /\ en_part = text
               /\ zh_part = <<>>
       /\ \E en \in TextAreas("English Prompt") :
             /\ TextAreas("English Prompt") = {en}
             /\ IsStripOf(en, en_part)
       /\ \A zh \in TextAreas(ChineseArea) : IsStripOf(zh, zh_part)
       /\ (\E c \in 1..Len(zh_part) : zh_part[c] \notin Whitespace)
             => TextAreas(ChineseArea) # {}

\* a reply with the separator twice and whitespace around both parts
C5_Witness ==
    /\ pc = "idle"
    /\ generate_btn
    /\ text = <<"U+3000">> \o MARKER \o MARKER
    /\ en_part = <<"U+3000">>
    /\ zh_part = MARKER
    /\ TextAreas("English Prompt") = {<<>>}

\* C6: a button press leads to at most one generate_content call; the one
\* call is sent once the specification is assembled and carries it, every
\* run a press started has sent it by the time it waits for the reply or
\* ends (a run the user abandons before line 548 sends none), and neither
\* an error nor a reply without the separator leads to a second call.
C6_OneCallPerPress ==
    /\ Len(calls) <= 1
    /\ ~generate_btn => calls = <<>>
    /\ Len(calls) = 1 => (spec_json # NoValue /\ calls[1].spec = spec_json)
    /\ pc \in {"start", "configured", "built"} => calls = <<>>
    /\ (generate_btn /\ pc \in {"awaiting", "idle"}) => Len(calls) = 1
    /\ (pc = "failed" /\ exc = "APIError") => Len(calls) = 1

\* the call failed and the run ended with the one call made
C6_Witness ==
    /\ pc = "failed"
    /\ exc = "APIError"
    /\ generate_btn
    /\ Len(calls) = 1

\* C7: with GEMINI_API_KEY missing or empty the run ends in RuntimeError at
\* the credential check, before the client exists, and no call is ever
\* sent with a missing or empty credential.
C7_NoCallWithoutCredential ==
    /\ (API_KEY = None \/ API_KEY = "")
       => /\ ~client
          /\ calls = <<>>
          /\ pc \in {"start", "failed"}
          /\ pc = "failed" => exc = "RuntimeError"
    /\ \A i \in 1..Len(calls) :
          calls[i].credential # None /\ calls[i].credential # ""
    /\ client => (API_KEY # None /\ API_KEY # "")

C7_Witness ==
    /\ API_KEY = ""
    /\ pc = "failed"
    /\ exc = "RuntimeError"
    /\ ~client
    /\ calls = <<>>

\* C8: for a layout name other than the three supported ones,
\* build_camera_shots raises nothing and returns one shot, S01, from 0.0 to
\* the duration rounded to two decimals, with the continuous-shot brief.
C8_UnknownLayoutSingleShot ==
    (ShotsReturned /\ call.template_name \notin SupportedLayouts)
    => /\ result.exc = "none"
       /\ result.value =
            << [shot_id    |-> "S01",
                time_range |-> <<0, call.duration_sec>>,
                brief      |-> "single continuous medium shot showing the whole exchange",
                priority   |-> "show_whole_action"] >>

\* 0.29 is a double just below 0.29
C8_Witness ==
    /\ ShotsReturned
    /\ call.template_name = "single_take"
    /\ call.duration_sec = 29
    /\ Len(result.value) = 1
    /\ result.value[1].time_range = <<0, 29>>

StrictlyOrdered(shots) ==
    /\ \A i \in 1..Len(shots) :
          /\ 0 <= shots[i].time_range[1]
          /\ shots[i].time_range[1] < shots[i].time_range[2]
    /\ \A i \in 2..Len(shots) :
          shots[i - 1].time_range[2] <= shots[i].time_range[1]

\* C9 as claimed: for every positive duration and any layout, every shot
\* has 0 <= start < end and the shots are strictly ordered in time.
C9_PositiveDurationStrict ==
    (ShotsReturned /\ call.duration_sec > 0) => StrictlyOrdered(result.value)

\* C9, amended: for every duration the slider can give (0.8 s to 6.0 s) and
\* any layout, every shot has 0 <= start < end and the shots are strictly
\* ordered in time.
C9_SliderDurationStrict ==
    (/\ ShotsReturned
     /\ call.duration_sec >= SLIDER_MIN
     /\ call.duration_sec <= SLIDER_MAX)
    => StrictlyOrdered(result.value)

C9_Witness ==
    /\ ShotsReturned
    /\ call.template_name = "street_brawl_3p"
    /\ call.duration_sec = SLIDER_MIN
    /\ TimeRanges(result.value) = <<<<0, 24>>, <<24, 60>>, <<60, 80>>>>

\* C10: a returned specification's characters block has one main entry
\* (id main_fighter), one opponent entry (id opponent_fighter), and an
\* extras list, of one entry copied from CHARACTERS[extra_char_key], exactly
\* when extra_char_key is not "none" and is a key of CHARACTERS; otherwise
\* it has no extras key.
C10_ZeroOrOneExtra ==
    SpecReturned
    => LET chars == result.value.characters
           extra == call.extra_char_key
       IN  /\ chars.main.id = "main_fighter"
           /\ chars.opponent.id = "opponent_fighter"
           /\ IF extra # "none" /\ extra \in DOMAIN CHARACTERS
              THEN /\ DOMAIN chars = {"main", "opponent", "extras"}
                   /\ Len(chars.extras) = 1
                   /\ chars.extras[1].id = "extra_fighter_1"
                   /\ \A f \in CopiedFields :
                         chars.extras[1][f] = CHARACTERS[extra][f]
              ELSE DOMAIN chars = {"main", "opponent"}

C10_Witness ==
    /\ SpecReturned
    /\ call.extra_char_key = "male_us_mma"
    /\ Len(result.value.characters.extras) = 1
    /\ result.value.characters.extras[1].role = "male_fighter"

NoPositiveLength(shots) ==
    /\ shots[1].time_range[1] = 0
    /\ \A i \in 1..Len(shots) : shots[i].time_range[2] <= shots[i].time_range[1]
    /\ \A i \in 2..Len(shots) :
          shots[i].time_range[1] = shots[i - 1].time_range[2]

AllZeroLength(shots) ==
    \A i \in 1..Len(shots) : shots[i].time_range[1] = shots[i].time_range[2]

\* C11 as claimed: given a duration <= 0, build_camera_shots raises no
\* error and every shot it returns is zero-length (start equal to end), for
\* every layout name.
C11_NonPositiveDurationZeroLength ==
    (ShotsReturned /\ call.duration_sec <= 0)
    => /\ result.exc = "none"
       /\ AllZeroLength(result.value)

\* C11, amended: given a duration <= 0, build_camera_shots does not
\* validate it and raises no error; for every layout name it returns the
\* layout's usual number of shots (three, or one for an unknown name), which
\* chain from 0.0 to the duration rounded to two decimals with no shot of
\* positive length (end <= start); every shot is zero-length exactly when
\* the rounded duration is zero, otherwise at least one shot runs backwards
\* (end < start).
C11_NonPositiveDurationNoPositiveLength ==
    (ShotsReturned /\ call.duration_sec <= 0)
    => LET shots == result.value
       IN  /\ result.exc = "none"
           /\ Len(shots) = IF call.template_name \in SupportedLayouts THEN 3 ELSE 1
           /\ NoPositiveLength(shots)
           /\ shots[Len(shots)].time_range[2] = call.duration_sec
           /\ AllZeroLength(shots) <=> call.duration_sec = 0

\* duration -0.07: the three shots run backwards from 0.0 to -0.07
C11_Witness ==
    /\ ShotsReturned
    /\ call.template_name = "jab_cross_lowkick"
    /\ call.duration_sec = -7
    /\ result.exc = "none"
    /\ TimeRanges(result.value) = <<<<0, -2>>, <<-2, -6>>, <<-6, -7>>>>
====
